---- MODULE Spec2Model ----
(***************************************************************************)
(* The string-literal scanner of repo-tools/check-shell-i18n.py            *)
(* (_extract_string_literals), as a state machine over one source text.    *)
(* A source is a sequence of one-character strings; the cursor index i is  *)
(* 0-based as in the Python code, so source[i] of the code is At(source,i).*)
(***************************************************************************)
EXTENDS Integers, Sequences, FiniteSets, TLC

VARIABLES
    source,            \* the argument of _extract_string_literals
    pc,                \* position in the generator's code
    i, line, col,      \* the cursor (lines 114-116)
    in_block_comment,  \* line 127
    start_i,           \* line 156
    is_interpolated,   \* line 160
    is_verbatim,       \* line 161
    literal_line,      \* line 197
    literal_col,       \* line 198
    buf,               \* line 201
    tokens,            \* the tuples (line, col, value) yielded so far (line 235)
    reads,             \* history: every index k at which source[k] was evaluated
    iter_i,            \* history: i at the head of the running main-loop iteration
    open_i,            \* history: index of the opening quote of the running literal
    closed,            \* history: the running literal's loop ended by break
    hist,              \* history: one record per yielded token
    cmt,               \* history: indices of the comment regions met in free mode
    other,             \* the frame of a second, suspended call on the same source
    interleaved        \* history: the two calls were switched while both ran

vars == <<source, pc, i, line, col, in_block_comment, start_i, is_interpolated,
          is_verbatim, literal_line, literal_col, buf, tokens, reads, iter_i,
          open_i, closed, hist, cmt, other, interleaved>>

\* What a step of the running call leaves alone of the other call.
calls == <<other, interleaved>>

\* The sources of the two-call specification have at most this many
\* characters (the documented examples apart).
MaxLenTwice == 3

\* ------------------------------------------------------------------ text

NL == "\n"
DQ == "\""
BS == "\\"
IndexError == "IndexError"

CR == "\r"
FF == "\f"

\* The characters the scanner tells apart, and one ordinary character.
Alphabet == {"/", "*", NL, "$", "@", DQ, BS, "x"}

\* Longest source enumerated exhaustively.
MaxLen == 5

\* The four-line end-to-end scenario.
Scenario ==
    <<"/", "/", " ", DQ, "i", "g", "n", "o", "r", "e", "d", " ",
       "i", "n", " ", "c", "o", "m", "m", "e", "n", "t", DQ, NL,
       "v", "a", "r", " ", "a", " ", "=", " ", DQ, "h", "e", "l",
       "l", "o", ".", "w", "o", "r", "l", "d", DQ, ";", NL, "v",
       "a", "r", " ", "b", " ", "=", " ", "@", DQ, "l", "i", "n",
       "e", "1", NL, "l", "i", "n", "e", "2", DQ, ";">>

\* "http://a" "/*": comment starts inside literals.
HttpExample ==
    <<DQ, "h", "t", "t", "p", ":", "/", "/", "a", DQ, " ", DQ, "/", "*", DQ>>

\* $"a{"b"}c": a quote inside an interpolation hole.
HoleExample == <<"$", DQ, "a", "{", DQ, "b", DQ, "}", "c", DQ>>

\* Sources with line boundaries other than a bare newline: x CR LF "x",
\* CR "x" and x FF "x".
LineBoundaryExamples ==
    { <<"x", CR, NL, DQ, "x", DQ>>,
      <<CR, DQ, "x", DQ>>,
      <<"x", FF, DQ, "x", DQ>> }

\* Sources of the documented scenarios, longer than MaxLen.
Examples ==
    { <<"@", DQ, "a", DQ, DQ, "b", DQ>>,
      <<DQ, "a", BS, DQ, "b", DQ>>,
      <<"$", "@", DQ, "x", DQ>>,
      <<"@", "$", DQ, "x", DQ>>,
      <<"$", DQ, "x", DQ>>,
      <<"@", DQ, "x", DQ>>,
      <<DQ, "x", DQ>>,
      <<"@", "f", "o", "o">>,
      <<"/", "/", DQ, "x", DQ, NL, "@", DQ, "a", NL, DQ, DQ, "b", DQ, DQ, "x", DQ>>,
      <<"/", "*", "/", DQ, "x", DQ, "*", "/", "$", "@", "x", DQ, BS, BS, DQ, "x">>,
      <<"@", "x", DQ, "a", BS, DQ, "b", DQ>>,
      Scenario,
      HttpExample,
      HoleExample }

Sources ==
    UNION {[1..n -> Alphabet] : n \in 0..MaxLen}
        \cup Examples \cup LineBoundaryExamples

SourcesTwice ==
    UNION {[1..n -> Alphabet] : n \in 0..MaxLenTwice}
        \cup Examples \cup LineBoundaryExamples

\* source[k] of the code; an index outside the text raises IndexError there.
At(s, k) == IF k >= 0 /\ k < Len(s) THEN s[k + 1] ELSE IndexError

\* InRange with the bound taken one too far
InRange_inclusive(s, k) == k <= Len(s)

\* `i < len(source)` (lines 129, 146, 205, 219; negated at line 182)
InRange(s, k) == k < Len(s)

\* HasNext with the bound taken one too far
HasNext_inclusive(s, k) == k + 1 <= Len(s)

\* `i + 1 < len(source)` (lines 134, 142, 167, 175, 208, 226)
HasNext(s, k) == k + 1 < Len(s)

\* ---------------------------------------------------------------- cursor

Cursor == [i |-> i, line |-> line, col |-> col]

\* advance that does not put the column back to 1 after a newline
advance_keeps_col(c, ch) ==
    [i    |-> c.i + 1,
     line |-> IF ch = NL THEN c.line + 1 ELSE c.line,
     col  |-> c.col + 1]

\* advance that puts the column back to 1 after a newline but does not
\* count the line
advance_keeps_line(c, ch) ==
    [i    |-> c.i + 1,
     line |-> c.line,
     col  |-> IF ch = NL THEN 1 ELSE c.col + 1]

\* advance(ch), lines 118-125
advance(c, ch) ==
    [i    |-> c.i + 1,
     line |-> IF ch = NL THEN c.line + 1 ELSE c.line,
     col  |-> IF ch = NL THEN 1 ELSE c.col + 1]

SetCursor(c) == /\ i' = c.i
                /\ line' = c.line
                /\ col' = c.col

\* The locals of one call (lines 114-127, 156-201) and its history: all the
\* state a call has, the generator frame Python keeps while it is suspended.
Frame ==
    [pc |-> pc, i |-> i, line |-> line, col |-> col,
     in_block_comment |-> in_block_comment, start_i |-> start_i,
     is_interpolated |-> is_interpolated, is_verbatim |-> is_verbatim,
     literal_line |-> literal_line, literal_col |-> literal_col,
     buf |-> buf, tokens |-> tokens, reads |-> reads, iter_i |-> iter_i,
     open_i |-> open_i, closed |-> closed, hist |-> hist, cmt |-> cmt]

\* The frame of a call that has not run yet (lines 114-127).
NewFrame ==
    [pc |-> "loop", i |-> 0, line |-> 1, col |-> 1,
     in_block_comment |-> FALSE, start_i |-> 0,
     is_interpolated |-> FALSE, is_verbatim |-> FALSE,
     literal_line |-> 0, literal_col |-> 0,
     buf |-> <<>>, tokens |-> <<>>, reads |-> {}, iter_i |-> -1,
     open_i |-> -1, closed |-> FALSE, hist |-> <<>>, cmt |-> {}]

Init ==
    /\ source \in Sources
    /\ other = NewFrame
    /\ interleaved = FALSE
    /\ pc = "loop"
    /\ i = 0
    /\ line = 1
    /\ col = 1
    /\ in_block_comment = FALSE
    /\ start_i = 0
    /\ is_interpolated = FALSE
    /\ is_verbatim = FALSE
    /\ literal_line = 0
    /\ literal_col = 0
    /\ buf = <<>>
    /\ tokens = <<>>
    /\ reads = {}
    /\ iter_i = -1
    /\ open_i = -1
    /\ closed = FALSE
    /\ hist = <<>>
    /\ cmt = {}

\* ----------------------------------------------------- comment regions

Least(S, dflt) == IF S = {} THEN dflt ELSE CHOOSE m \in S : \A n \in S : m <= n

\* Indices from a '//' at k up to, not including, the next newline.
LineCommentRegion(s, k) ==
    k .. (Least({j \in k..(Len(s) - 1) : At(s, j) = NL}, Len(s)) - 1)

\* Indices from a '/*' at k to the end of the first '*/' that starts at or
\* after k + 2, or to the end of the text when there is none.
BlockCommentRegion(s, k) ==
    k .. Least({j + 1 : j \in {m \in (k + 2)..(Len(s) - 2) :
                                  At(s, m) = "*" /\ At(s, m + 1) = "/"}},
               Len(s) - 1)

\* --------------------------------------------------------- loop pieces

\* indices read by the look-ahead `i + 1 < len(source) and source[i + 1] == ..`
Look(s, k) == IF HasNext(s, k) THEN {k + 1} ELSE {}

\* line 134: ch == "*" and i + 1 < len(source) and source[i + 1] == "/"
IsBlockClose(s, k) == At(s, k) = "*" /\ HasNext(s, k) /\ At(s, k + 1) = "/"

\* lines 142-143: nxt, when the `if` at line 142 is taken
HasNxt(s, k) == At(s, k) = "/" /\ HasNext(s, k)

\* no line comments: '//' is ordinary text
IsLineComment_never(s, k) == FALSE

\* line 144
IsLineComment(s, k) == HasNxt(s, k) /\ At(s, k + 1) = "/"

\* line 149
IsBlockOpen(s, k) == HasNxt(s, k) /\ At(s, k + 1) = "*"

\* the line-comment loop with its test for the newline inverted
LineCommentGoesOn_inverted(s, k) == InRange(s, k) /\ At(s, k) = NL

\* the line-comment loop without its test for the newline
LineCommentGoesOn_to_end(s, k) == InRange(s, k)

\* line 146: the condition of the line-comment loop
LineCommentGoesOn(s, k) == InRange(s, k) /\ At(s, k) # NL

\* PrefixScan that forgets the verbatim flag of the two-character prefix $@
PrefixScan_dollar_at(s, c) ==
    LET ch == At(s, c.i) IN
    IF ch = "$"
    THEN IF HasNext(s, c.i) /\ At(s, c.i + 1) = "@"
         THEN [cur |-> advance(advance(c, ch), "@"),
               interpolated |-> TRUE, verbatim |-> FALSE]
         ELSE [cur |-> advance(c, ch),
               interpolated |-> TRUE, verbatim |-> FALSE]
    ELSE IF ch = "@"
    THEN IF HasNext(s, c.i) /\ At(s, c.i + 1) = "$"
         THEN [cur |-> advance(advance(c, ch), "$"),
               interpolated |-> TRUE, verbatim |-> TRUE]
         ELSE [cur |-> advance(c, ch),
               interpolated |-> FALSE, verbatim |-> TRUE]
    ELSE [cur |-> c, interpolated |-> FALSE, verbatim |-> FALSE]

\* PrefixScan with the two flags set to False once before the loop instead of
\* in every iteration: without a prefix character the flags of the iteration
\* before stay
PrefixScan_sticky(s, c) ==
    LET ch == At(s, c.i) IN
    IF ch = "$"
    THEN IF HasNext(s, c.i) /\ At(s, c.i + 1) = "@"
         THEN [cur |-> advance(advance(c, ch), "@"),
               interpolated |-> TRUE, verbatim |-> TRUE]
         ELSE [cur |-> advance(c, ch),
               interpolated |-> TRUE, verbatim |-> is_verbatim]
    ELSE IF ch = "@"
    THEN IF HasNext(s, c.i) /\ At(s, c.i + 1) = "$"
         THEN [cur |-> advance(advance(c, ch), "$"),
               interpolated |-> TRUE, verbatim |-> TRUE]
         ELSE [cur |-> advance(c, ch),
               interpolated |-> is_interpolated, verbatim |-> TRUE]
    ELSE [cur |-> c, interpolated |-> is_interpolated, verbatim |-> is_verbatim]

\* lines 160-180: the flags and the cursor after the tentative prefix
PrefixScan(s, c) ==
    LET ch == At(s, c.i) IN
    IF ch = "$"
    THEN IF HasNext(s, c.i) /\ At(s, c.i + 1) = "@"
         THEN [cur |-> advance(advance(c, ch), "@"),
               interpolated |-> TRUE, verbatim |-> TRUE]
         ELSE [cur |-> advance(c, ch),
               interpolated |-> TRUE, verbatim |-> FALSE]
    ELSE IF ch = "@"
    THEN IF HasNext(s, c.i) /\ At(s, c.i + 1) = "$"
         THEN [cur |-> advance(advance(c, ch), "$"),
               interpolated |-> TRUE, verbatim |-> TRUE]
         ELSE [cur |-> advance(c, ch),
               interpolated |-> FALSE, verbatim |-> TRUE]
    ELSE [cur |-> c, interpolated |-> FALSE, verbatim |-> FALSE]

\* Rollback that restores the index and the line but not the column
Rollback_keeps_col(s, c0, c) ==
    IF ~InRange(s, c.i) \/ At(s, c.i) # DQ
    THEN [i |-> c0.i, line |-> c0.line, col |-> c.col]
    ELSE c

\* lines 182-189: the cursor goes back to the prefix start unless it is at '"'
Rollback(s, c0, c) ==
    IF ~InRange(s, c.i) \/ At(s, c.i) # DQ THEN c0 ELSE c

\* lines 156-189: the cursor at line 191
AfterPrefix(s, c0) ==
    IF At(s, c0.i) \in {"$", "@"}
    THEN Rollback(s, c0, PrefixScan(s, c0).cur)
    ELSE c0

\* indices read by lines 142-191 when no comment starts at k
FreeReads(s, c0) ==
    LET k == c0.i
        p == PrefixScan(s, c0).cur
    IN  {k}
        \cup (IF At(s, k) = "/" THEN Look(s, k) ELSE {})
        \cup (IF At(s, k) \in {"$", "@"}
              THEN Look(s, k) \cup (IF InRange(s, p.i) THEN {p.i} ELSE {})
              ELSE {})
        \cup {AfterPrefix(s, c0).i}

\* a verbatim literal without the doubled-quote rule
IsQuoteQuote_never(s, k) == FALSE

\* line 208: a doubled quote in a verbatim literal
IsQuoteQuote(s, k) == At(s, k) = DQ /\ HasNext(s, k) /\ At(s, k + 1) = DQ

\* a regular literal without the backslash rule
IsEscape_never(s, k) == FALSE

\* lines 224-226: a backslash with a character after it
IsEscape(s, k) == At(s, k) = BS /\ HasNext(s, k)

\* -------------------------------------------------------------- actions

LoopHead == pc = "loop" /\ InRange(source, i)
Free == LoopHead /\ ~in_block_comment

locals == <<start_i, is_interpolated, is_verbatim, literal_line, literal_col, buf>>
ghost  == <<open_i, closed, hist>>

\* line 129: the loop condition fails, the generator is exhausted
LoopExit ==
    /\ pc = "loop"
    /\ ~InRange(source, i)
    /\ pc' = "done"
    /\ UNCHANGED <<source, calls, i, line, col, in_block_comment, locals, tokens,
                   reads, iter_i, ghost, cmt>>

\* lines 133-138
BlockCommentClose ==
    /\ LoopHead
    /\ in_block_comment
    /\ IsBlockClose(source, i)
    /\ LET c1 == advance(Cursor, At(source, i))
       IN  /\ SetCursor(advance(c1, At(source, c1.i)))
           /\ reads' = reads \cup {i, i + 1, c1.i}
    /\ in_block_comment' = FALSE
    /\ iter_i' = i
    /\ UNCHANGED <<source, calls, pc, locals, tokens, ghost, cmt>>

\* lines 133-134, 139-140
BlockCommentSkip ==
    /\ LoopHead
    /\ in_block_comment
    /\ ~IsBlockClose(source, i)
    /\ SetCursor(advance(Cursor, At(source, i)))
    /\ reads' = reads \cup {i}
                      \cup (IF At(source, i) = "*" THEN Look(source, i) ELSE {})
    /\ iter_i' = i
    /\ UNCHANGED <<source, calls, pc, in_block_comment, locals, tokens, ghost, cmt>>

\* lines 142-146: '//' met in free mode
LineCommentStart ==
    /\ Free
    /\ IsLineComment(source, i)
    /\ pc' = "line_comment"
    /\ reads' = reads \cup {i, i + 1}
    /\ iter_i' = i
    /\ cmt' = cmt \cup LineCommentRegion(source, i)
    /\ UNCHANGED <<source, calls, i, line, col, in_block_comment, locals, tokens, ghost>>

\* lines 146-147
LineCommentSkip ==
    /\ pc = "line_comment"
    /\ LineCommentGoesOn(source, i)
    /\ SetCursor(advance(Cursor, At(source, i)))
    /\ reads' = reads \cup {i}
    /\ UNCHANGED <<source, calls, pc, in_block_comment, locals, tokens, iter_i, ghost, cmt>>

\* lines 146, 148
LineCommentEnd ==
    /\ pc = "line_comment"
    /\ ~LineCommentGoesOn(source, i)
    /\ pc' = "loop"
    /\ reads' = reads \cup (IF InRange(source, i) THEN {i} ELSE {})
    /\ UNCHANGED <<source, calls, i, line, col, in_block_comment, locals, tokens,
                   iter_i, ghost, cmt>>

\* BlockCommentOpen that consumes the '/' only, so that the '*' of '/*/'
\* is looked at again as the start of a closer
BlockCommentOpen_one_char ==
    /\ Free
    /\ IsBlockOpen(source, i)
    /\ SetCursor(advance(Cursor, At(source, i)))
    /\ in_block_comment' = TRUE
    /\ reads' = reads \cup {i, i + 1}
    /\ iter_i' = i
    /\ cmt' = cmt \cup BlockCommentRegion(source, i)
    /\ UNCHANGED <<source, calls, pc, locals, tokens, ghost>>

\* lines 142-143, 149-153: '/*' met in free mode
BlockCommentOpen ==
    /\ Free
    /\ IsBlockOpen(source, i)
    /\ SetCursor(advance(advance(Cursor, At(source, i)), At(source, i + 1)))
    /\ in_block_comment' = TRUE
    /\ reads' = reads \cup {i, i + 1}
    /\ iter_i' = i
    /\ cmt' = cmt \cup BlockCommentRegion(source, i)
    /\ UNCHANGED <<source, calls, pc, locals, tokens, ghost>>

\* lines 155-194: no literal starts here (a false prefix is rolled back)
OrdinaryChar ==
    /\ Free
    /\ ~IsLineComment(source, i)
    /\ ~IsBlockOpen(source, i)
    /\ LET p == PrefixScan(source, Cursor)
           c == AfterPrefix(source, Cursor)
       IN  /\ At(source, c.i) # DQ
           /\ SetCursor(advance(c, At(source, c.i)))
           /\ is_interpolated' = p.interpolated
           /\ is_verbatim' = p.verbatim
    /\ start_i' = i
    /\ reads' = reads \cup FreeReads(source, Cursor)
    /\ iter_i' = i
    /\ UNCHANGED <<source, calls, pc, in_block_comment, literal_line, literal_col, buf,
                   tokens, ghost, cmt>>

\* lines 155-201: the cursor is at an opening quote
OpenLiteral ==
    /\ Free
    /\ ~IsLineComment(source, i)
    /\ ~IsBlockOpen(source, i)
    /\ LET p == PrefixScan(source, Cursor)
           c == AfterPrefix(source, Cursor)
       IN  /\ At(source, c.i) = DQ
           /\ literal_line' = c.line
           /\ literal_col' = c.col
           /\ open_i' = c.i
           /\ SetCursor(advance(c, DQ))
           /\ is_interpolated' = p.interpolated
           /\ is_verbatim' = p.verbatim
           /\ pc' = IF p.verbatim THEN "verbatim" ELSE "regular"
    /\ start_i' = i
    /\ buf' = <<>>
    /\ closed' = FALSE
    /\ reads' = reads \cup FreeReads(source, Cursor)
    /\ iter_i' = i
    /\ UNCHANGED <<source, calls, in_block_comment, tokens, hist, cmt>>

inner == <<source, calls, in_block_comment, start_i, is_interpolated, is_verbatim,
           literal_line, literal_col, tokens, iter_i, open_i, hist, cmt>>

\* lines 205-212: "" inside a verbatim literal
VerbatimQuoteQuote ==
    /\ pc = "verbatim"
    /\ InRange(source, i)
    /\ IsQuoteQuote(source, i)
    /\ buf' = Append(buf, DQ)
    /\ SetCursor(advance(advance(Cursor, DQ), DQ))
    /\ reads' = reads \cup {i, i + 1}
    /\ UNCHANGED <<pc, closed>>
    /\ UNCHANGED inner

\* lines 205-208, 213-214: the closing quote of a verbatim literal
VerbatimClose ==
    /\ pc = "verbatim"
    /\ InRange(source, i)
    /\ At(source, i) = DQ
    /\ ~IsQuoteQuote(source, i)
    /\ SetCursor(advance(Cursor, DQ))
    /\ reads' = reads \cup {i} \cup Look(source, i)
    /\ pc' = "yield"
    /\ closed' = TRUE
    /\ UNCHANGED buf
    /\ UNCHANGED inner

\* lines 205-207, 215-216
VerbatimChar ==
    /\ pc = "verbatim"
    /\ InRange(source, i)
    /\ At(source, i) # DQ
    /\ buf' = Append(buf, At(source, i))
    /\ SetCursor(advance(Cursor, At(source, i)))
    /\ reads' = reads \cup {i}
    /\ UNCHANGED <<pc, closed>>
    /\ UNCHANGED inner

\* line 205: the text ends inside a verbatim literal
VerbatimEnd ==
    /\ pc = "verbatim"
    /\ ~InRange(source, i)
    /\ pc' = "yield"
    /\ UNCHANGED <<i, line, col, buf, reads, closed>>
    /\ UNCHANGED inner

\* RegularClose that balances the braces of an interpolated literal: a quote
\* inside an open '{' is content
RegularClose_balanced ==
    /\ pc = "regular"
    /\ InRange(source, i)
    /\ At(source, i) = DQ
    /\ SetCursor(advance(Cursor, DQ))
    /\ reads' = reads \cup {i}
    /\ IF /\ is_interpolated
          /\ Cardinality({k \in 1..Len(buf) : buf[k] = "{"})
                 > Cardinality({k \in 1..Len(buf) : buf[k] = "}"})
       THEN /\ buf' = Append(buf, DQ)
            /\ UNCHANGED <<pc, closed>>
       ELSE /\ pc' = "yield"
            /\ closed' = TRUE
            /\ UNCHANGED buf
    /\ UNCHANGED inner

\* lines 219-223: the closing quote of a regular literal
RegularClose ==
    /\ pc = "regular"
    /\ InRange(source, i)
    /\ At(source, i) = DQ
    /\ SetCursor(advance(Cursor, DQ))
    /\ reads' = reads \cup {i}
    /\ pc' = "yield"
    /\ closed' = TRUE
    /\ UNCHANGED buf
    /\ UNCHANGED inner

\* RegularEscape that advances over the escaped character with advance(ch),
\* ch still being the backslash
RegularEscape_same_ch ==
    /\ pc = "regular"
    /\ InRange(source, i)
    /\ IsEscape(source, i)
    /\ LET c1 == advance(Cursor, At(source, i))
       IN  /\ buf' = Append(Append(buf, At(source, i)), At(source, c1.i))
           /\ SetCursor(advance(c1, At(source, i)))
           /\ reads' = reads \cup {i, c1.i}
    /\ UNCHANGED <<pc, closed>>
    /\ UNCHANGED inner

\* lines 219-231: a backslash and the character after it
RegularEscape ==
    /\ pc = "regular"
    /\ InRange(source, i)
    /\ IsEscape(source, i)
    /\ LET c1 == advance(Cursor, At(source, i))
       IN  /\ buf' = Append(Append(buf, At(source, i)), At(source, c1.i))
           /\ SetCursor(advance(c1, At(source, c1.i)))
           /\ reads' = reads \cup {i, c1.i}
    /\ UNCHANGED <<pc, closed>>
    /\ UNCHANGED inner

\* RegularChar that takes '//' inside a regular literal for a line comment
RegularChar_sees_comment ==
    /\ pc = "regular"
    /\ InRange(source, i)
    /\ At(source, i) # DQ
    /\ ~IsEscape(source, i)
    /\ IF IsLineComment(source, i)
       THEN /\ pc' = "line_comment"
            /\ UNCHANGED <<i, line, col, buf, reads>>
       ELSE /\ buf' = Append(buf, At(source, i))
            /\ SetCursor(advance(Cursor, At(source, i)))
            /\ reads' = reads \cup {i}
            /\ pc' = pc
    /\ UNCHANGED closed
    /\ UNCHANGED inner

\* lines 219-226, 232-233
RegularChar ==
    /\ pc = "regular"
    /\ InRange(source, i)
    /\ At(source, i) # DQ
    /\ ~IsEscape(source, i)
    /\ buf' = Append(buf, At(source, i))
    /\ SetCursor(advance(Cursor, At(source, i)))
    /\ reads' = reads \cup {i}
    /\ UNCHANGED <<pc, closed>>
    /\ UNCHANGED inner

\* line 219: the text ends inside a regular literal
RegularEnd ==
    /\ pc = "regular"
    /\ ~InRange(source, i)
    /\ pc' = "yield"
    /\ UNCHANGED <<i, line, col, buf, reads, closed>>
    /\ UNCHANGED inner

\* line 235
Yield ==
    /\ pc = "yield"
    /\ tokens' = Append(tokens, <<literal_line, literal_col, buf>>)
    /\ hist' = Append(hist, [first |-> start_i, open |-> open_i, end |-> i,
                             verbatim |-> is_verbatim,
                             interpolated |-> is_interpolated,
                             closed |-> closed])
    /\ pc' = "loop"
    /\ UNCHANGED <<source, calls, i, line, col, in_block_comment, locals, reads,
                   iter_i, open_i, closed, cmt>>

Next ==
    \/ LoopExit
    \/ BlockCommentClose
    \/ BlockCommentSkip
    \/ LineCommentStart
    \/ LineCommentSkip
    \/ LineCommentEnd
    \/ BlockCommentOpen
    \/ OrdinaryChar
    \/ OpenLiteral
    \/ VerbatimQuoteQuote
    \/ VerbatimClose
    \/ VerbatimChar
    \/ VerbatimEnd
    \/ RegularClose
    \/ RegularEscape
    \/ RegularChar
    \/ RegularEnd
    \/ Yield

Spec == Init /\ [][Next]_vars

\* ------------------------------------------------------------ two calls

\* Two calls of _extract_string_literals on one source. Each call is a
\* generator with a frame of its own (lines 114-127 are local assignments;
\* the function reads and writes no global and no attribute); the variables
\* pc .. cmt are the frame of the running call, other is the frame of the
\* suspended one.
InitTwice ==
    /\ source \in SourcesTwice
    /\ other = NewFrame
    /\ interleaved = FALSE
    /\ pc = NewFrame.pc
    /\ i = NewFrame.i
    /\ line = NewFrame.line
    /\ col = NewFrame.col
    /\ in_block_comment = NewFrame.in_block_comment
    /\ start_i = NewFrame.start_i
    /\ is_interpolated = NewFrame.is_interpolated
    /\ is_verbatim = NewFrame.is_verbatim
    /\ literal_line = NewFrame.literal_line
    /\ literal_col = NewFrame.literal_col
    /\ buf = NewFrame.buf
    /\ tokens = NewFrame.tokens
    /\ reads = NewFrame.reads
    /\ iter_i = NewFrame.iter_i
    /\ open_i = NewFrame.open_i
    /\ closed = NewFrame.closed
    /\ hist = NewFrame.hist
    /\ cmt = NewFrame.cmt

\* A call that has started and has not ended.
Running(f) == f.pc # "done" /\ f # NewFrame

\* The running call is suspended and the other one resumed, the resumed
\* call finding in_block_comment as flag: with generators each frame holds
\* its own.
SwitchWith(flag) ==
    /\ other' = Frame
    /\ interleaved' = (interleaved \/ (Running(Frame) /\ Running(other)))
    /\ pc' = other.pc
    /\ i' = other.i
    /\ line' = other.line
    /\ col' = other.col
    /\ in_block_comment' = flag
    /\ start_i' = other.start_i
    /\ is_interpolated' = other.is_interpolated
    /\ is_verbatim' = other.is_verbatim
    /\ literal_line' = other.literal_line
    /\ literal_col' = other.literal_col
    /\ buf' = other.buf
    /\ tokens' = other.tokens
    /\ reads' = other.reads
    /\ iter_i' = other.iter_i
    /\ open_i' = other.open_i
    /\ closed' = other.closed
    /\ hist' = other.hist
    /\ cmt' = other.cmt
    /\ UNCHANGED source

\* in_block_comment as one module-level flag shared by the calls
Switch_shared_flag == SwitchWith(in_block_comment)

\* The caller turns from one call to the other: at a yield, at the end of
\* a call, or, with threads, between any two steps.
Switch == SwitchWith(other.in_block_comment)

NextTwice ==
    \/ Next
    \/ Switch

SpecTwice == InitTwice /\ [][NextTwice]_vars

\* ------------------------------------------------- positions in the text

\* 1 plus the number of newlines before index k
LineOf(s, k) == 1 + Cardinality({j \in 0..(k - 1) : At(s, j) = NL})

\* 1 plus the number of characters between the last newline before k and k
ColOf(s, k) ==
    LET nls == {j \in 0..(k - 1) : At(s, j) = NL}
        last == IF nls = {} THEN -1 ELSE CHOOSE m \in nls : \A n \in nls : n <= m
    IN  k - last

Yielded == 1..Len(tokens)

TypeOK ==
    /\ source \in Seq(STRING)
    /\ pc \in {"loop", "line_comment", "verbatim", "regular", "yield", "done"}
    /\ i \in Nat /\ line \in Nat /\ col \in Nat
    /\ in_block_comment \in BOOLEAN
    /\ is_verbatim \in BOOLEAN /\ is_interpolated \in BOOLEAN
    /\ Len(hist) = Len(tokens)

\* ---------------------------------------------------------------- claims

\* C1: when the text ends inside a literal that has not met its closing
\* quote, no token is yielded for it: every yielded token belongs to a
\* literal whose closing quote was consumed.
C1_UnterminatedLiteralDropped ==
    \A n \in Yielded :
        /\ hist[n].closed
        /\ hist[n].end - 1 > hist[n].open
        /\ At(source, hist[n].end - 1) = DQ

\* C2: the (line, col) of every yielded token is the 1-based position of the
\* literal's opening double quote (not of its prefix), newlines counted once.
C2_TokenPositionIsOpeningQuote ==
    \A n \in Yielded :
        \E k \in 0..(Len(source) - 1) :
            /\ At(source, k) = DQ
            /\ LineOf(source, k) = tokens[n][1]
            /\ ColOf(source, k) = tokens[n][2]
            /\ k = hist[n].open

\* a token with a prefix, on a line after the first and not in column 1
C2_Witness ==
    \E n \in Yielded :
        /\ tokens[n][1] >= 2
        /\ tokens[n][2] >= 2
        /\ hist[n].first < hist[n].open

\* C3: no token starts inside a comment region: neither the opening quote nor
\* the prefix of a yielded token lies between a '//' met in free mode and the
\* next newline, or between a '/*' met in free mode and its '*/' (or the end
\* of the text).
C3_NoTokenStartsInComment ==
    \A n \in Yielded :
        /\ hist[n].open \notin cmt
        /\ hist[n].first \notin cmt

\* a quote inside a comment region, and a token yielded after the comment
C3_Witness ==
    /\ pc = "done"
    /\ \E k \in cmt : At(source, k) = DQ
    /\ \E n \in Yielded : \E k \in cmt : k < hist[n].open

\* C4: every iteration of the main loop ends with the cursor index strictly
\* greater than it was at the start of the iteration.
C4_IterationAdvances ==
    pc \in {"loop", "done"} => i > iter_i

\* an iteration has ended after a comment was skipped and a token yielded
C4_Witness ==
    /\ pc = "loop"
    /\ iter_i >= 0
    /\ cmt # {}
    /\ Len(tokens) >= 1

\* C5: every read source[k] is made at an index below len(source).
C5_ReadsInRange ==
    \A k \in reads : 0 <= k /\ k < Len(source)

\* the text ended right after a two-character prefix met in free mode, and
\* every character was read
C5_Witness ==
    /\ pc = "done"
    /\ Len(source) >= 2
    /\ At(source, Len(source) - 2) = "$"
    /\ At(source, Len(source) - 1) = "@"
    /\ start_i = Len(source) - 1
    /\ reads = 0..(Len(source) - 1)

\* The length of the prefix run that starts at k: 2 when the character at k
\* is followed by the other prefix character, else 1.
PrefixLen(s, k) ==
    IF \/ At(s, k) = "$" /\ At(s, k + 1) = "@"
       \/ At(s, k) = "@" /\ At(s, k + 1) = "$"
    THEN 2 ELSE 1

\* A prefix starts at k and is not immediately followed by '"'.
FalsePrefixAt(s, k) ==
    /\ At(s, k) \in {"$", "@"}
    /\ At(s, k + PrefixLen(s, k)) # DQ

\* C6: in free mode at a prefix that is not immediately followed by '"', the
\* iteration yields nothing and leaves the cursor exactly one character after
\* the first prefix character (index + 1, same line, column + 1), back at the
\* loop head in free mode, so that the next character is examined again.
C6_FalsePrefixAdvancesOne ==
    [][ (Free /\ FalsePrefixAt(source, i)) =>
            /\ i' = i + 1
            /\ line' = line
            /\ col' = col + 1
            /\ pc' = "loop"
            /\ ~in_block_comment'
            /\ tokens' = tokens
            /\ hist' = hist ]_vars

\* the iteration just run started at a two-character prefix not followed by a
\* quote, and the cursor is now at its second character
C6_Witness ==
    /\ pc = "loop"
    /\ ~in_block_comment
    /\ iter_i >= 0
    /\ start_i = iter_i
    /\ PrefixLen(source, iter_i) = 2
    /\ FalsePrefixAt(source, iter_i)
    /\ i = iter_i + 1
    /\ InRange(source, iter_i + 2)

\* The token (if any) whose span, prefix included, holds index k.
TokensAt(k) == {n \in 1..Len(hist) : hist[n].first <= k /\ k < hist[n].end}

\* C7: the cursor index never exceeds len(source); when the scan ends it is
\* equal to len(source), and every character is then accounted for once: it
\* lies in the span of at most one token, or in a comment region, or in
\* neither (ordinary text), never in two of them.
C7_ConsumedExactlyOnce ==
    /\ 0 <= i /\ i <= Len(source)
    /\ Free => PrefixScan(source, Cursor).cur.i <= Len(source)
    /\ \A n \in 1..Len(hist) :
           /\ 0 <= hist[n].first /\ hist[n].first <= hist[n].open
           /\ hist[n].open < hist[n].end /\ hist[n].end <= i
    /\ cmt \subseteq 0..(Len(source) - 1)
    /\ pc = "done" =>
           /\ i = Len(source)
           /\ \A k \in 0..(Len(source) - 1) :
                  Cardinality(TokensAt(k)) + (IF k \in cmt THEN 1 ELSE 0) <= 1

\* a finished scan with a token, a comment and ordinary text
C7_Witness ==
    /\ pc = "done"
    /\ \E k \in 0..(Len(source) - 1) : TokensAt(k) # {}
    /\ \E k \in 0..(Len(source) - 1) : k \in cmt
    /\ \E k \in 0..(Len(source) - 1) : TokensAt(k) = {} /\ k \notin cmt

\* The text of the literal of token n between its opening quote and its
\* closing quote (or the end of the text when it has none).
Body(n) ==
    SubSeq(source, hist[n].open + 2,
           IF hist[n].closed THEN hist[n].end - 1 ELSE hist[n].end)

\* b with every pair of adjacent double quotes, taken from the left, replaced
\* by one double quote
RECURSIVE Collapse(_)
Collapse(b) ==
    IF b = <<>> THEN <<>>
    ELSE IF b[1] = DQ /\ Len(b) >= 2 /\ b[2] = DQ
         THEN <<DQ>> \o Collapse(SubSeq(b, 3, Len(b)))
         ELSE <<b[1]>> \o Collapse(Tail(b))

\* every double quote of b belongs to a pair of adjacent double quotes
RECURSIVE WellPaired(_)
WellPaired(b) ==
    \/ b = <<>>
    \/ b[1] # DQ /\ WellPaired(Tail(b))
    \/ b[1] = DQ /\ Len(b) >= 2 /\ b[2] = DQ /\ WellPaired(SubSeq(b, 3, Len(b)))

VerbatimExample == <<"@", DQ, "a", DQ, DQ, "b", DQ>>

\* C8: in a verbatim literal every pair of adjacent double quotes gives one
\* '"' of the value and does not close the literal, a double quote not
\* followed by another closes it, and every other character (a backslash
\* too) is copied as it is; @"a""b" yields exactly one token, a"b.
C8_VerbatimQuoteEscape ==
    /\ \A n \in Yielded :
           hist[n].verbatim =>
               /\ tokens[n][3] = Collapse(Body(n))
               /\ WellPaired(Body(n))
               /\ hist[n].closed =>
                      /\ At(source, hist[n].end - 1) = DQ
                      /\ At(source, hist[n].end) # DQ
               /\ ~hist[n].closed => hist[n].end = Len(source)
    /\ (pc = "done" /\ source = VerbatimExample) =>
           tokens = << <<1, 2, <<"a", DQ, "b">> >> >>

\* the scan of @"a""b" has ended, and has yielded a closed verbatim literal
\* whose value holds a quote
C8_Witness ==
    /\ pc = "done"
    /\ source = VerbatimExample
    /\ Len(tokens) = 1
    /\ hist[1].verbatim /\ hist[1].closed
    /\ DQ \in {tokens[1][3][k] : k \in 1..Len(tokens[1][3])}

\* The number of backslashes that stand immediately before index q, not
\* going below index lo.
BackslashRun(s, lo, q) ==
    LET others == {j \in lo..(q - 1) : At(s, j) # BS}
        last == IF others = {} THEN lo - 1
                ELSE CHOOSE m \in others : \A n \in others : n <= m
    IN  q - 1 - last

RegularExample == <<DQ, "a", BS, DQ, "b", DQ>>

\* C9: in a literal without '@' the value is the exact source text between
\* the opening and the closing quote, backslashes kept; a double quote just
\* after an unpaired backslash (an odd run of backslashes) never closes the
\* literal, and the literal closes at the first double quote after an even
\* run; "a\"b" yields exactly one token, the four characters a \ " b.
C9_RegularBackslashEscape ==
    /\ \A n \in Yielded :
           ~hist[n].verbatim =>
               /\ tokens[n][3] = Body(n)
               /\ \A q \in (hist[n].open + 1)..(hist[n].end - 1) :
                      At(source, q) = DQ =>
                          IF hist[n].closed /\ q = hist[n].end - 1
                          THEN BackslashRun(source, hist[n].open + 1, q) % 2 = 0
                          ELSE BackslashRun(source, hist[n].open + 1, q) % 2 = 1
               /\ hist[n].closed => At(source, hist[n].end - 1) = DQ
               /\ ~hist[n].closed => hist[n].end = Len(source)
    /\ (pc = "done" /\ source = RegularExample) =>
           tokens = << <<1, 1, <<"a", BS, DQ, "b">> >> >>

\* the scan of "a\"b" has ended, and has yielded a closed regular literal
\* whose value holds a backslash and a quote
C9_Witness ==
    /\ pc = "done"
    /\ source = RegularExample
    /\ Len(tokens) = 1
    /\ ~hist[1].verbatim /\ hist[1].closed
    /\ {BS, DQ} \subseteq {tokens[1][3][k] : k \in 1..Len(tokens[1][3])}

\* The characters of the prefix of token n.
PrefixOf(n) == {At(source, k) : k \in hist[n].first..(hist[n].open - 1)}

\* The five prefix combinations of the literal "x": the source, the
\* column of its opening quote, and its flags.
PrefixExamples ==
    { [src |-> <<"$", "@", DQ, "x", DQ>>, col |-> 3, v |-> TRUE,  d |-> TRUE],
      [src |-> <<"@", "$", DQ, "x", DQ>>, col |-> 3, v |-> TRUE,  d |-> TRUE],
      [src |-> <<"$", DQ, "x", DQ>>,      col |-> 2, v |-> FALSE, d |-> TRUE],
      [src |-> <<"@", DQ, "x", DQ>>,      col |-> 2, v |-> TRUE,  d |-> FALSE],
      [src |-> <<DQ, "x", DQ>>,           col |-> 1, v |-> FALSE, d |-> FALSE] }

\* C10: $@"x", @$"x", $"x", @"x" and "x" each yield exactly one token with
\* value x; for every token the verbatim flag is set exactly when '@' is in
\* its prefix and the interpolated flag exactly when '$' is; and a prefix
\* character that stands before the other prefix character and the quote
\* belongs to the same (two-character) prefix.
C10_PrefixCombinations ==
    /\ \A n \in Yielded :
           /\ hist[n].verbatim = ("@" \in PrefixOf(n))
           /\ hist[n].interpolated = ("$" \in PrefixOf(n))
           /\ PrefixOf(n) \subseteq {"$", "@"}
           /\ hist[n].open - hist[n].first \in 0..2
           /\ PrefixLen(source, hist[n].open - 2) = 2 =>
                  hist[n].first = hist[n].open - 2
    /\ \A e \in PrefixExamples :
           (pc = "done" /\ source = e.src) =>
               /\ tokens = << <<1, e.col, <<"x">> >> >>
               /\ hist[1].first = 0
               /\ hist[1].verbatim = e.v
               /\ hist[1].interpolated = e.d

\* the scan of $@"x" has ended with one token that has both flags
C10_Witness ==
    /\ pc = "done"
    /\ source = <<"$", "@", DQ, "x", DQ>>
    /\ Len(tokens) = 1
    /\ hist[1].verbatim /\ hist[1].interpolated
    /\ hist[1].first = 0 /\ hist[1].open = 2

\* (line, col) of token m is before (line, col) of token n
PositionBefore(m, n) ==
    \/ tokens[m][1] < tokens[n][1]
    \/ tokens[m][1] = tokens[n][1] /\ tokens[m][2] < tokens[n][2]

\* C11: tokens are yielded in document order and do not overlap: the prefix
\* and the opening quote of each token lie after the last character consumed
\* for the token yielded before it, and the (line, col) positions increase
\* strictly in lexicographic order.
C11_DocumentOrder ==
    \A n \in 2..Len(tokens) :
        /\ hist[n].open > hist[n - 1].end - 1
        /\ hist[n].first >= hist[n - 1].end
        /\ PositionBefore(n - 1, n)

\* two tokens on different lines, the later one in a lower column
C11_Witness ==
    \E n \in 2..Len(tokens) :
        /\ tokens[n][1] > tokens[n - 1][1]
        /\ tokens[n][2] < tokens[n - 1][2]

\* C13: the four-line scenario yields exactly two tokens: hello.world, which
\* starts on line 2, and line1 newline line2, which starts on line 3; the
\* literal in the comment on line 1 yields none.
C13_EndToEndScenario ==
    (pc = "done" /\ source = Scenario) =>
        /\ Len(tokens) = 2
        /\ tokens[1][1] = 2
        /\ tokens[1][3] = <<"h", "e", "l", "l", "o", ".", "w", "o", "r", "l", "d">>
        /\ tokens[2][1] = 3
        /\ tokens[2][3] = <<"l", "i", "n", "e", "1", NL, "l", "i", "n", "e", "2">>
        /\ hist[2].verbatim
        /\ \A n \in Yielded : tokens[n][1] # 1

\* the scan of the scenario has ended: its comment was skipped and both
\* literals were closed
C13_Witness ==
    /\ pc = "done"
    /\ source = Scenario
    /\ cmt = 0..22
    /\ Len(tokens) = 2
    /\ hist[1].closed /\ hist[2].closed

\* A comment-start sequence ('//' or '/*') stands at index k.
CommentStartAt(s, k) == At(s, k) = "/" /\ At(s, k + 1) \in {"/", "*"}

\* C14: inside a literal '//' and '/*' are ordinary characters: while a
\* literal is scanned the block-comment flag is not set, no comment region
\* begins inside a token, a comment start in the text of a literal is in its
\* value, and the literal closes at its own closing quote; "http://a" "/*"
\* yields the two tokens http://a and /*.
C14_CommentStartInsideLiteral ==
    /\ pc \in {"verbatim", "regular", "yield"} => ~in_block_comment
    /\ \A n \in Yielded :
           /\ \A k \in hist[n].first..(hist[n].end - 1) : k \notin cmt
           /\ (\E k \in (hist[n].open + 1)..(hist[n].end - 3) :
                   CommentStartAt(source, k)) =>
                  \E j \in 1..(Len(tokens[n][3]) - 1) :
                      /\ tokens[n][3][j] = "/"
                      /\ tokens[n][3][j + 1] \in {"/", "*"}
    /\ (pc = "done" /\ source = HttpExample) =>
           tokens = << <<1, 1, <<"h", "t", "t", "p", ":", "/", "/", "a">> >>,
                       <<1, 12, <<"/", "*">> >> >>

\* a closed literal with a comment start in its text was yielded, and
\* another literal after it on the same line
C14_Witness ==
    \E n \in 1..(Len(tokens) - 1) :
        /\ hist[n].closed
        /\ \E k \in (hist[n].open + 1)..(hist[n].end - 3) : CommentStartAt(source, k)
        /\ tokens[n + 1][1] = tokens[n][1]

\* A block-comment closer ('*/') stands at index m.
BlockCloseAt(s, m) == At(s, m) = "*" /\ At(s, m + 1) = "/"

\* C15: whenever the scanner is at the loop head (or has ended) with the
\* block-comment flag set, a '/*' stands at some index k before the cursor,
\* there is no '*/' from the character after that '/*' up to the cursor,
\* everything from k to the cursor is comment, and every token yielded so
\* far ended before k; with the flag clear the cursor is in no comment
\* region. So '/*/' does not close a comment, a comment without '*/' lasts
\* to the end of the text, and nothing is yielded after its '/*'.
C15_BlockCommentUntilCloser ==
    pc \in {"loop", "done"} =>
        IF in_block_comment
        THEN \E k \in 0..(i - 2) :
                 /\ At(source, k) = "/" /\ At(source, k + 1) = "*"
                 /\ \A m \in (k + 2)..(i - 1) : ~BlockCloseAt(source, m)
                 /\ \A m \in k..(i - 1) : m \in cmt
                 /\ \A n \in Yielded : hist[n].end <= k
        ELSE i \notin cmt

\* the text ended inside a block comment that holds '/*/' and a quote
C15_Witness ==
    /\ pc = "done"
    /\ in_block_comment
    /\ \E k \in cmt : /\ At(source, k) = "/"
                      /\ BlockCloseAt(source, k + 1)
                      /\ k + 1 \in cmt
    /\ \E k \in cmt : At(source, k) = DQ

\* The iteration just run was a line comment that began at iter_i.
LineCommentJustEnded ==
    /\ pc = "loop"
    /\ ~in_block_comment
    /\ iter_i >= 0
    /\ At(source, iter_i) = "/" /\ At(source, iter_i + 1) = "/"

C16_AfterLineComment ==
    /\ pc = "line_comment" => ~in_block_comment
    /\ LineCommentJustEnded =>
           /\ i = Least({j \in iter_i..(Len(source) - 1) : At(source, j) = NL},
                        Len(source))
           /\ line = LineOf(source, iter_i)
           /\ col = ColOf(source, i)
           /\ \A n \in Yielded : hist[n].end <= iter_i
    /\ (pc = "done" /\ source = <<"/", "/", NL, DQ, DQ>>) =>
           tokens = << <<2, 1, <<>> >> >>
    /\ (pc = "done" /\ source = <<"/", "/", NL, "/", "*">>) => in_block_comment
    /\ (pc = "done" /\ source = <<"/", "/", "/", "*", NL>>) =>
           ~in_block_comment /\ line = 2 /\ col = 1

C16_LineCommentStep ==
    /\ pc = "line_comment" =>
           /\ ~in_block_comment'
           /\ tokens' = tokens
           /\ line' = line
           /\ IF InRange(source, i) /\ At(source, i) # NL
              THEN i' = i + 1 /\ pc' = "line_comment"
              ELSE i' = i /\ col' = col /\ pc' = "loop"
    /\ (Free /\ At(source, i) = NL) =>
           /\ i' = i + 1
           /\ line' = line + 1
           /\ col' = 1
           /\ pc' = "loop"
           /\ ~in_block_comment'

\* C16: a line comment entered on '//' in free mode skips every character up
\* to but not including the next newline (or to the end of the text), yields
\* nothing and sets no flag; the newline is then processed in free mode,
\* where it increments the line and puts the column back to 1; a literal or
\* a '/*' on the following line is recognised, a '/*' inside the line
\* comment opens no block comment.
C16_LineCommentToNewline ==
    []C16_AfterLineComment /\ [][C16_LineCommentStep]_vars

\* a line comment that holds '/*' has just ended at a newline
C16_Witness ==
    /\ LineCommentJustEnded
    /\ At(source, i) = NL
    /\ \E k \in cmt : At(source, k) = "/" /\ At(source, k + 1) = "*" /\ k + 1 \in cmt

\* The number of '{' minus the number of '}' in s from index lo to q - 1.
BraceDepth(s, lo, q) ==
    Cardinality({k \in lo..(q - 1) : At(s, k) = "{"})
        - Cardinality({k \in lo..(q - 1) : At(s, k) = "}"})

\* The index of the double quote that ends a literal opened at index o,
\* found without looking at braces: the first double quote after an even run
\* of backslashes (regular rules), or the first double quote that is not
\* half of a pair (verbatim rules); Len(s) when there is none.
ClosingQuote(s, o, verbatim) ==
    Least({q \in (o + 1)..(Len(s) - 1) :
               /\ At(s, q) = DQ
               /\ IF verbatim
                  THEN WellPaired(SubSeq(s, o + 2, q)) /\ At(s, q + 1) # DQ
                  ELSE /\ BackslashRun(s, o + 1, q) % 2 = 0
                       /\ \A r \in (o + 1)..(q - 1) :
                              At(s, r) = DQ => BackslashRun(s, o + 1, r) % 2 = 1},
          Len(s))

\* C17: interpolation holes get no special treatment: a literal with a '$'
\* prefix ends at the double quote the regular (or verbatim) rules find,
\* whatever braces stand before it, and its braces are in its value; in
\* $"a{"b"}c" the quote inside the hole closes the outer literal, and the
\* next double quote opens a literal without flags.
C17_NoInterpolationHoles ==
    /\ \A n \in Yielded :
           hist[n].interpolated =>
               /\ hist[n].end =
                      IF hist[n].closed
                      THEN ClosingQuote(source, hist[n].open, hist[n].verbatim) + 1
                      ELSE Len(source)
               /\ hist[n].closed =
                      (ClosingQuote(source, hist[n].open, hist[n].verbatim)
                           < Len(source))
               /\ \A c \in {"{", "}"} :
                      Cardinality({k \in 1..Len(tokens[n][3]) : tokens[n][3][k] = c})
                          = Cardinality({k \in (hist[n].open + 1)..(hist[n].end - 1) :
                                             At(source, k) = c})
    /\ (pc = "done" /\ source = HoleExample) =>
           /\ tokens = << <<1, 2, <<"a", "{">> >>, <<1, 7, <<"}", "c">> >> >>
           /\ hist[1].interpolated /\ ~hist[1].verbatim
           /\ ~hist[2].interpolated /\ ~hist[2].verbatim
           /\ hist[2].first = hist[2].open

\* an interpolated literal was closed by a quote inside an open hole, and the
\* next quote opened a literal of its own
C17_Witness ==
    /\ Len(tokens) >= 2
    /\ hist[1].interpolated /\ hist[1].closed
    /\ BraceDepth(source, hist[1].open + 1, hist[1].end - 1) > 0
    /\ At(source, hist[2].open) = DQ
    /\ hist[2].first = hist[2].open

\* C18: at the head of every iteration of the main loop, at every yield and
\* at the end (and at the heads of the inner loops too) the tracked line is
\* 1 plus the number of newlines before index i and the tracked column is 1
\* plus the number of characters after the last of them.
C18_LineColFollowIndex ==
    /\ line = LineOf(source, i)
    /\ col = ColOf(source, i)

\* at a yield, after a backslash escape of a newline inside the literal and
\* a false prefix before it
C18_Witness ==
    /\ pc = "yield"
    /\ line >= 2
    /\ \E k \in (open_i + 1)..(i - 2) :
           At(source, k) = BS /\ At(source, k + 1) = NL
    /\ open_i >= 1
    /\ FalsePrefixAt(source, 0)

\* An '@' belongs to the prefix run that ends just before the quote at o.
AtSignBefore(s, o) ==
    \/ At(s, o - 1) = "@"
    \/ At(s, o - 1) = "$" /\ At(s, o - 2) = "@"

FalsePrefixExample == <<"@", "x", DQ, "a", BS, DQ, "b", DQ>>

\* C19: a literal is scanned with the verbatim rules exactly when an '@'
\* belongs to the prefix run that ends just before its opening quote, and
\* with the regular backslash rules otherwise: its end and its value are
\* those the rules of that kind give; the flags of a prefix that was rolled
\* back reach no literal, and @x"a\"b" yields the one token a\"b.
C19_VerbatimOnlyWithAtPrefix ==
    /\ \A n \in Yielded :
           LET v == AtSignBefore(source, hist[n].open)
               q == ClosingQuote(source, hist[n].open, v)
           IN  /\ hist[n].end = IF q < Len(source) THEN q + 1 ELSE Len(source)
               /\ tokens[n][3] =
                      IF v
                      THEN Collapse(SubSeq(source, hist[n].open + 2, q))
                      ELSE SubSeq(source, hist[n].open + 2, q)
    /\ pc \in {"verbatim", "regular"} =>
           (pc = "verbatim") = AtSignBefore(source, open_i)
    /\ (pc = "done" /\ source = FalsePrefixExample) =>
           tokens = << <<1, 3, <<"a", BS, DQ, "b">> >> >>

\* a literal without prefix, with an escaped quote in it, was yielded after
\* an '@' that was rolled back
C19_Witness ==
    \E n \in Yielded :
        /\ hist[n].first = hist[n].open
        /\ hist[n].closed
        /\ \E k \in 0..(hist[n].open - 2) :
               At(source, k) = "@" /\ FalsePrefixAt(source, k)
        /\ \E k \in (hist[n].open + 1)..(hist[n].end - 3) :
               At(source, k) = BS /\ At(source, k + 1) = DQ

\* ------------------------------------------------- the caller's line list

\* The characters at which str.splitlines() ends a line (line 257), among
\* those of the sources above.
LineBoundary == {NL, CR, FF}

\* A line boundary of source.splitlines() ends at index j: a boundary
\* character, a CR just before an LF excepted (CR LF is one boundary).
BoundaryEndsAt(s, j) ==
    /\ At(s, j) \in LineBoundary
    /\ ~(At(s, j) = CR /\ At(s, j + 1) = NL)

\* len(source.splitlines()): one line per boundary, and one more for the
\* text after the last boundary when there is any (line 257).
SplitLinesLen(s) ==
    Cardinality({j \in 0..(Len(s) - 1) : BoundaryEndsAt(s, j)})
        + (IF Len(s) > 0 /\ ~BoundaryEndsAt(s, Len(s) - 1) THEN 1 ELSE 0)

\* The 1-based number of the element of source.splitlines() that holds the
\* character at index k (lines 257, 263).
SplitLineOf(s, k) ==
    1 + Cardinality({j \in 0..(k - 1) : BoundaryEndsAt(s, j)})

\* C20: the line number ln of every yielded token is a valid 1-based index
\* into source.splitlines(), and lines[ln - 1] is the line that holds the
\* token's opening quote.
C20_TokenLineIndexesSplitlines ==
    \A n \in Yielded :
        /\ 1 <= tokens[n][1]
        /\ tokens[n][1] <= SplitLinesLen(source)
        /\ SplitLineOf(source, hist[n].open) = tokens[n][1]

\* ----------------------------------------------------------- claim C12

Min(a, b) == IF a <= b THEN a ELSE b

\* C12: two calls on the same source, run one after the other or switched
\* between at any step, yield the same tuples (line, col, value) in the
\* same order: at every moment the tuples of the two calls agree position
\* by position, and once both calls have ended their sequences are equal.
C12_SameSequenceTwice ==
    /\ \A n \in 1..Min(Len(tokens), Len(other.tokens)) :
           tokens[n] = other.tokens[n]
    /\ (pc = "done" /\ other.pc = "done") => tokens = other.tokens

\* both calls have ended after running interleaved, with two tuples each
C12_Witness ==
    /\ pc = "done"
    /\ other.pc = "done"
    /\ interleaved
    /\ Len(tokens) >= 2
    /\ Len(other.tokens) >= 2

====
